---- MODULE Spec2Model ----
(***************************************************************************)
(* IPythonBackgroundKernelWrapper (src/main.py): the constructor path on   *)
(* the calling thread (session, sockets, connection file), start(), the    *)
(* background thread's event loop (_thread_loop, _start_kernel,            *)
(* _setup_streams, _create_kernel), the lock/condition handshake, the      *)
(* keyboard-interrupt path and the atexit hook.                            *)
(*                                                                         *)
(* Strings are sequences of one-character strings.  A stream or kernel     *)
(* handle is 0 (None) or the id of the thread that built the object, so a  *)
(* reassignment by another thread is visible.                              *)
(***************************************************************************)
EXTENDS Integers, Sequences, FiniteSets, TLC

\* ------------------------------------------------------------------ bounds

\* how many times start() is called at most (over all wrappers)
MaxStarts == 2
\* longest base filename the filename specification draws
MaxLen == 3
\* size of the host's pool of ephemeral ports
NumPorts == 8

Wrappers == {1, 2}
Threads == 1..MaxStarts
\* the lock holder id of the client thread that waits on the condition
WaiterId == MaxStarts + 1
Ports == 1..NumPorts
\* characters of the base filenames: a letter, the extension separator, the path separator
Alphabet == {"a", ".", "/"}
Pids == {7, 40, 305}

\* ----------------------------------------------------------------- strings

\* "kernel.json", the default of connection_filename
DefaultFilename == <<"k", "e", "r", "n", "e", "l", ".", "j", "s", "o", "n">>

StringsUpTo(n) == UNION {[1..k -> Alphabet] : k \in 0..n}

Digit(d) == CASE d = 0 -> "0" [] d = 1 -> "1" [] d = 2 -> "2" [] d = 3 -> "3"
              [] d = 4 -> "4" [] d = 5 -> "5" [] d = 6 -> "6" [] d = 7 -> "7"
              [] d = 8 -> "8" [] d = 9 -> "9"

\* "%i" % n for n >= 0
RECURSIVE FormatInt(_)
FormatInt(n) == IF n < 10 THEN <<Digit(n)>> ELSE FormatInt(n \div 10) \o <<Digit(n % 10)>>

\* str.rfind, 1-based: the last index of c in s, 0 when there is none
RFind(s, c) == LET I == {i \in 1..Len(s) : s[i] = c}
               IN IF I = {} THEN 0 ELSE CHOOSE i \in I : \A j \in I : j <= i

\* os.path.splitext (genericpath._splitext with sep "/" and extsep "."): the
\* extension starts at the last dot, if that dot comes after the last separator
\* and after a character of the last component that is not a dot
SplitExtNaive(p) ==
    LET dotIndex == RFind(p, ".")
    IN IF dotIndex > 0
       THEN <<SubSeq(p, 1, dotIndex - 1), SubSeq(p, dotIndex, Len(p))>>
       ELSE <<p, <<>>>>

SplitExt(p) ==
    LET sepIndex == RFind(p, "/")
        dotIndex == RFind(p, ".")
    IN IF /\ dotIndex > sepIndex
          /\ \E i \in (sepIndex + 1)..(dotIndex - 1) : p[i] # "."
       THEN <<SubSeq(p, 1, dotIndex - 1), SubSeq(p, dotIndex, Len(p))>>
       ELSE <<p, <<>>>>

\* lines 37-40: the connection filename the constructor computes
ConnectionFilename(connection_filename, connection_fn_with_pid, p) ==
    IF connection_fn_with_pid
    THEN LET ne == SplitExt(connection_filename)
         IN ne[1] \o <<"-">> \o FormatInt(p) \o ne[2]
    ELSE connection_filename

\* ------------------------------------------------------------------- modes

\* 0o700, the mask of line 106
OwnerRwx == 448
\* st_mode of a regular file written with 0o600, 0o644 (umask 022), 0o666 (umask 0)
CreateModes == {33152, 33188, 33206}

\* a & b on naturals
RECURSIVE BitAnd(_, _)
BitAnd(a, b) == IF a = 0 \/ b = 0 THEN 0
                ELSE (a % 2) * (b % 2) + 2 * BitAnd(a \div 2, b \div 2)

\* the permission bits for group and others: m & 0o077
GroupOtherBits(m) == m % 64

\* ------------------------------------------------------------------- state

VARIABLES
    pid,                  \* os.getpid()
    inUse,                \* the ephemeral ports bound on the host
    fs,                   \* the files: name -> [mode, key, info]
    atexitHooks,          \* atexit's registry: the wrappers whose hook is registered, in order
    proc,                 \* "running", "exiting" (atexit hooks run), "exited"
    escaped,              \* the exceptions that left an operation towards the main thread
    cleanup,              \* per wrapper: what os.remove did when its exit hook ran, "none" before
    cpc,                  \* per wrapper: the constructor's position
    argFilename,          \* per wrapper: __init__'s connection_filename
    argWithPid,           \* per wrapper: __init__'s connection_fn_with_pid
    _connection_filename, \* per wrapper: self._connection_filename
    _session,             \* per wrapper: self._session's key, 0 before _create_session
    _connection_info,     \* per wrapper: self._connection_info
    heartbeat,            \* per wrapper: whether the Heartbeat thread was started
    _thread,              \* per wrapper: self._thread, 0 for None
    _shell_stream,        \* per wrapper: self._shell_stream, 0 for None
    _control_stream,      \* per wrapper: self._control_stream, 0 for None
    _kernel,              \* per wrapper: self._kernel, 0 for None
    _lock,                \* per wrapper: the holder of self._lock, 0 when free
    owner,                \* per thread: the wrapper whose start() created it, 0 before
    tpc,                  \* per thread: its position
    kernelObj,            \* per thread: the IPythonKernel object it constructed
    fault,                \* per thread: the exception, other than a cancellation, it raised
    wpc,                  \* the waiting client's position
    seen,                 \* the kernel handle the waiting client read
    mpc,                  \* the main thread's position in _endless_dummy_loop, "none" outside
    printed,              \* whether _endless_dummy_loop printed its message
    hbProbe               \* per wrapper: the liveness probe on its heartbeat port

envVars == <<pid, inUse, fs, atexitHooks, proc, escaped, cleanup>>
ctorVars == <<cpc, argFilename, argWithPid, _connection_filename, _session,
              _connection_info, heartbeat>>
handleVars == <<_shell_stream, _control_stream, _kernel>>
threadVars == <<_thread, _lock, owner, tpc, kernelObj, fault>>
waiterVars == <<wpc, seen>>
mainVars == <<mpc, printed, hbProbe>>
vars == <<envVars, ctorVars, handleVars, threadVars, waiterVars, mainVars>>

\* a filesystem without files
NoFiles == [x \in {} |-> 0]

NoInfo == [shell_port |-> 0, iopub_port |-> 0, control_port |-> 0, hb_port |-> 0]

\* the constructor is between its first and its last statement
InCtor(w) == cpc[w] \in {"create_session", "create_sockets", "atexit_register",
                         "write_connection_file", "chmod"}

\* the positions of _endless_dummy_loop at which the main thread is in the loop
InDummyLoop == {"while", "sleep"}

\* the main thread is free to call an operation
MainFree == proc = "running" /\ mpc \notin InDummyLoop /\ \A w \in Wrappers : ~InCtor(w)

InitWith(pids, busy) ==
    /\ pid \in pids
    /\ inUse \in busy
    /\ fs = NoFiles
    /\ atexitHooks = <<>>
    /\ proc = "running"
    /\ escaped = {}
    /\ cleanup = [w \in Wrappers |-> "none"]
    /\ cpc = [w \in Wrappers |-> "unborn"]
    /\ argFilename = [w \in Wrappers |-> <<>>]
    /\ argWithPid = [w \in Wrappers |-> FALSE]
    /\ _connection_filename = [w \in Wrappers |-> <<>>]
    /\ _session = [w \in Wrappers |-> 0]
    /\ _connection_info = [w \in Wrappers |-> NoInfo]
    /\ heartbeat = [w \in Wrappers |-> FALSE]
    /\ _thread = [w \in Wrappers |-> 0]
    /\ _shell_stream = [w \in Wrappers |-> 0]
    /\ _control_stream = [w \in Wrappers |-> 0]
    /\ _kernel = [w \in Wrappers |-> 0]
    /\ _lock = [w \in Wrappers |-> 0]
    /\ owner = [t \in Threads |-> 0]
    /\ tpc = [t \in Threads |-> "unborn"]
    /\ kernelObj = [t \in Threads |-> "none"]
    /\ fault = [t \in Threads |-> "none"]
    /\ wpc = "idle"
    /\ seen = 0
    /\ mpc = "none"
    /\ printed = FALSE
    /\ hbProbe = [w \in Wrappers |-> "none"]

\* ------------------------------------------------------------- constructor

\* lines 27-53: the locks, the filename, the handles set to None
__init__(w, fn, withPid) ==
    /\ MainFree
    /\ cpc[w] = "unborn"
    /\ \A v \in Wrappers : v < w => cpc[v] # "unborn"
    /\ cpc' = [cpc EXCEPT ![w] = "create_session"]
    /\ argFilename' = [argFilename EXCEPT ![w] = fn]
    /\ argWithPid' = [argWithPid EXCEPT ![w] = withPid]
    /\ _connection_filename' =
           [_connection_filename EXCEPT ![w] = ConnectionFilename(fn, withPid, pid)]
    /\ UNCHANGED <<_session, _connection_info, heartbeat>>
    /\ UNCHANGED <<mainVars, envVars, handleVars, threadVars, waiterVars>>

\* lines 59-61: a session with a fresh key (the wrapper's id stands for it)
_create_session(w) ==
    /\ proc = "running"
    /\ cpc[w] = "create_session"
    /\ _session' = [_session EXCEPT ![w] = w]
    /\ cpc' = [cpc EXCEPT ![w] = "create_sockets"]
    /\ UNCHANGED <<argFilename, argWithPid, _connection_filename, _connection_info, heartbeat>>
    /\ UNCHANGED <<mainVars, envVars, handleVars, threadVars, waiterVars>>

\* the n lowest members of S
RECURSIVE Lowest(_, _)
Lowest(S, n) == IF n = 0 \/ S = {} THEN <<>>
                ELSE LET m == CHOOSE x \in S : \A y \in S : x <= y
                     IN <<m>> \o Lowest(S \ {m}, n - 1)

\* _create_sockets inside a try block that swallows the error of a failed bind
_create_sockets_swallowed(w) ==
    /\ proc = "running"
    /\ cpc[w] = "create_sockets"
    /\ LET free == Ports \ inUse
           p == Lowest(free, 4)
       IN IF Len(p) = 4
          THEN /\ inUse' = inUse \cup {p[1], p[2], p[3], p[4]}
               /\ _connection_info' = [_connection_info EXCEPT ![w] =
                      [shell_port |-> p[1], iopub_port |-> p[2],
                       control_port |-> p[3], hb_port |-> p[4]]]
               /\ heartbeat' = [heartbeat EXCEPT ![w] = TRUE]
          ELSE /\ inUse' = Ports
               /\ UNCHANGED <<_connection_info, heartbeat>>
    /\ cpc' = [cpc EXCEPT ![w] = "atexit_register"]
    /\ UNCHANGED <<argFilename, argWithPid, _connection_filename, _session>>
    /\ UNCHANGED <<mainVars, pid, cleanup, fs, atexitHooks, proc, escaped>>
    /\ UNCHANGED <<handleVars, threadVars, waiterVars>>

\* lines 63-91: three sockets and the heartbeat, each bound to a free port, in the
\* order shell, iopub, control, heartbeat.  Which free port a bind gets does not
\* matter to the wrapper: each bind takes the lowest free one.  A bind with no
\* free port left raises, with the earlier sockets still bound.
_create_sockets(w) ==
    /\ proc = "running"
    /\ cpc[w] = "create_sockets"
    /\ LET free == Ports \ inUse
           p == Lowest(free, 4)
       IN IF Len(p) = 4
          THEN /\ inUse' = inUse \cup {p[1], p[2], p[3], p[4]}
               /\ _connection_info' = [_connection_info EXCEPT ![w] =
                      [shell_port |-> p[1], iopub_port |-> p[2],
                       control_port |-> p[3], hb_port |-> p[4]]]
               /\ heartbeat' = [heartbeat EXCEPT ![w] = TRUE]
               /\ cpc' = [cpc EXCEPT ![w] = "atexit_register"]
               /\ UNCHANGED escaped
          ELSE /\ inUse' = Ports
               /\ cpc' = [cpc EXCEPT ![w] = "failed"]
               /\ escaped' = escaped \cup {<<"__init__", "ZMQBindError">>}
               /\ UNCHANGED <<_connection_info, heartbeat>>
    /\ UNCHANGED <<argFilename, argWithPid, _connection_filename, _session>>
    /\ UNCHANGED <<mainVars, pid, cleanup, fs, atexitHooks, proc>>
    /\ UNCHANGED <<handleVars, threadVars, waiterVars>>

\* line 102: atexit.register(self._cleanup_connection_file)
atexit_register(w) ==
    /\ proc = "running"
    /\ cpc[w] = "atexit_register"
    /\ atexitHooks' = Append(atexitHooks, w)
    /\ cpc' = [cpc EXCEPT ![w] = "write_connection_file"]
    /\ UNCHANGED <<argFilename, argWithPid, _connection_filename, _session,
                   _connection_info, heartbeat>>
    /\ UNCHANGED <<mainVars, pid, cleanup, inUse, fs, proc, escaped>>
    /\ UNCHANGED <<handleVars, threadVars, waiterVars>>

\* f with name n bound to v
Put(f, n, v) == [x \in DOMAIN f \cup {n} |-> IF x = n THEN v ELSE f[x]]
\* f without name n
Remove(f, n) == [x \in DOMAIN f \ {n} |-> f[x]]

\* the modes write_connection_file can leave on a file that had mode m: m when it
\* opens the file for writing, 0o600 when it replaces the file by one of its own
RewriteModes(m) == {m, 33152}

\* line 103: write_connection_file(...).  The file gets the key and the ports; a
\* new file gets the mode the library and the umask give it.  The write can fail
\* (OSError), and the constructor with it.
write_connection_file(w) ==
    /\ proc = "running"
    /\ cpc[w] = "write_connection_file"
    /\ LET fn == _connection_filename[w]
       IN \/ /\ \E m \in (IF fn \in DOMAIN fs THEN RewriteModes(fs[fn].mode)
                                               ELSE CreateModes) :
                   fs' = Put(fs, fn, [mode |-> m, key |-> _session[w],
                                      info |-> _connection_info[w]])
             /\ cpc' = [cpc EXCEPT ![w] = "chmod"]
             /\ UNCHANGED escaped
          \/ /\ cpc' = [cpc EXCEPT ![w] = "failed"]
             /\ escaped' = escaped \cup {<<"__init__", "OSError">>}
             /\ UNCHANGED fs
    /\ UNCHANGED <<argFilename, argWithPid, _connection_filename, _session,
                   _connection_info, heartbeat>>
    /\ UNCHANGED <<mainVars, pid, cleanup, inUse, atexitHooks, proc>>
    /\ UNCHANGED <<handleVars, threadVars, waiterVars>>

\* st_mode of a file of st_mode m after os.chmod(path, bits): the permission bits
\* are replaced, the file type stays
ChangedMode(m, bits) == (m \div 4096) * 4096 + (bits % 4096)

\* line 106: os.chmod(fn, os.stat(fn).st_mode & 0o0700)
chmod(w) ==
    /\ proc = "running"
    /\ cpc[w] = "chmod"
    /\ LET fn == _connection_filename[w]
       IN fs' = [fs EXCEPT ![fn].mode = ChangedMode(@, BitAnd(@, OwnerRwx))]
    /\ cpc' = [cpc EXCEPT ![w] = "constructed"]
    /\ UNCHANGED <<argFilename, argWithPid, _connection_filename, _session,
                   _connection_info, heartbeat>>
    /\ UNCHANGED <<mainVars, pid, cleanup, inUse, atexitHooks, proc, escaped>>
    /\ UNCHANGED <<handleVars, threadVars, waiterVars>>

\* --------------------------------------------------------------- exit hook

\* the end of the main thread in a process whose background threads are not daemons:
\* the interpreter joins them before it runs the atexit hooks
ExitBeginJoin ==
    /\ MainFree
    /\ \A t \in Threads : tpc[t] \in {"unborn", "returned", "died"}
    /\ proc' = "exiting"
    /\ UNCHANGED <<mainVars, pid, cleanup, inUse, fs, atexitHooks, escaped>>
    /\ UNCHANGED <<ctorVars, handleVars, threadVars, waiterVars>>

\* the main thread has finished: the interpreter starts to run the atexit hooks
ExitBegin ==
    /\ MainFree
    /\ proc' = "exiting"
    /\ UNCHANGED <<mainVars, pid, cleanup, inUse, fs, atexitHooks, escaped>>
    /\ UNCHANGED <<ctorVars, handleVars, threadVars, waiterVars>>

\* an except clause for the missing file only
SwallowedMissingOnly == {"FileNotFoundError"}

\* the exceptions of os.remove that lines 96-97 swallow
Swallowed == {"FileNotFoundError", "PermissionError"}

\* lines 93-97: os.remove(self._connection_filename) with result r: "removed", or
\* the OSError it raised
_cleanup_connection_file(w, r) ==
    /\ cleanup' = [cleanup EXCEPT ![w] = r]
    /\ fs' = IF r = "removed" THEN Remove(fs, _connection_filename[w]) ELSE fs
    /\ escaped' = IF r \in Swallowed \cup {"removed"} THEN escaped
                  ELSE escaped \cup {<<"_cleanup_connection_file", r>>}

\* what os.remove can do with name fn
RemoveResults(fn) == IF fn \in DOMAIN fs THEN {"removed", "PermissionError"}
                     ELSE {"FileNotFoundError"}

\* atexit runs the hooks last registered first, each once
RunExitHook ==
    /\ proc = "exiting"
    /\ atexitHooks # <<>>
    /\ LET w == atexitHooks[Len(atexitHooks)]
       IN \E r \in RemoveResults(_connection_filename[w]) : _cleanup_connection_file(w, r)
    /\ atexitHooks' = SubSeq(atexitHooks, 1, Len(atexitHooks) - 1)
    /\ UNCHANGED <<mainVars, pid, inUse, proc>>
    /\ UNCHANGED <<ctorVars, handleVars, threadVars, waiterVars>>

\* the hooks are done: the process is gone, its daemon threads with it
ExitEnd ==
    /\ proc = "exiting"
    /\ atexitHooks = <<>>
    /\ proc' = "exited"
    /\ UNCHANGED <<mainVars, pid, cleanup, inUse, fs, atexitHooks, escaped>>
    /\ UNCHANGED <<ctorVars, handleVars, threadVars, waiterVars>>

\* ------------------------------------------------------ background thread

\* lines 174-178: a new daemon thread, recorded in self._thread, started
start(w) ==
    /\ MainFree
    /\ cpc[w] = "constructed"
    /\ \E t \in Threads :
          /\ tpc[t] = "unborn"
          /\ \A u \in Threads : u < t => tpc[u] # "unborn"
          /\ _thread' = [_thread EXCEPT ![w] = t]
          /\ owner' = [owner EXCEPT ![t] = w]
          /\ tpc' = [tpc EXCEPT ![t] = "thread_loop"]
    /\ UNCHANGED <<_lock, kernelObj, fault>>
    /\ UNCHANGED <<mainVars, envVars, ctorVars, handleVars, waiterVars>>

\* thread t exists and its process has not ended
Alive(t) == owner[t] # 0 /\ proc # "exited"

\* assert threading.current_thread() is self._thread, evaluated by thread t
IsCurrentThread(t) == _thread[owner[t]] = t

\* the positions at which loop.run_forever() is on the stack of the thread
InLoop == {"start_kernel", "setup_streams", "ss_lock", "ss_shell", "ss_control",
           "ss_notify", "create_kernel", "ck_construct", "ck_lock", "ck_assign",
           "ck_notify", "kernel_start", "serving", "idle"}

\* self._condition.notify_all(): every thread that waits on the condition of w wakes
notify_all(w) == IF w = 1 /\ wpc = "waiting" THEN "woken" ELSE wpc

\* a step of thread t to position to that touches nothing shared
Goto(t, to) ==
    /\ tpc' = [tpc EXCEPT ![t] = to]
    /\ UNCHANGED <<_thread, _lock, owner, kernelObj, fault>>
    /\ UNCHANGED <<mainVars, envVars, ctorVars, handleVars, waiterVars>>

\* an exception e of the callback swallowed inside _start_kernel, which goes on to
\* its next call
CallbackSwallowed(t, e) ==
    /\ tpc' = [tpc EXCEPT ![t] = IF tpc[t] \in {"ss_shell", "ss_control"}
                                 THEN "create_kernel" ELSE "kernel_start"]
    /\ fault' = [fault EXCEPT ![t] = e]
    /\ _lock' = [_lock EXCEPT ![owner[t]] = IF @ = t THEN 0 ELSE @]
    /\ UNCHANGED <<_thread, owner, kernelObj>>
    /\ UNCHANGED <<mainVars, envVars, ctorVars, handleVars, waiterVars>>

\* an exception e raised by the callback _start_kernel: the event loop logs it and
\* keeps running with nothing left to run; a lock held by a with block is released
CallbackRaises(t, e) ==
    /\ tpc' = [tpc EXCEPT ![t] = "idle"]
    /\ fault' = [fault EXCEPT ![t] = e]
    /\ _lock' = [_lock EXCEPT ![owner[t]] = IF @ = t THEN 0 ELSE @]
    /\ UNCHANGED <<_thread, owner, kernelObj>>
    /\ UNCHANGED <<mainVars, envVars, ctorVars, handleVars, waiterVars>>

\* lines 162-170: the assertion, the new event loop, call_soon(_start_kernel),
\* run_forever() entered.  A failed assertion is raised before the try block.
_thread_loop(t) ==
    /\ Alive(t)
    /\ tpc[t] = "thread_loop"
    /\ IF IsCurrentThread(t)
       THEN Goto(t, "start_kernel")
       ELSE /\ tpc' = [tpc EXCEPT ![t] = "died"]
            /\ fault' = [fault EXCEPT ![t] = "AssertionError"]
            /\ UNCHANGED <<_thread, _lock, owner, kernelObj>>
            /\ UNCHANGED <<mainVars, envVars, ctorVars, handleVars, waiterVars>>

\* line 156
_start_kernel(t) ==
    /\ Alive(t)
    /\ tpc[t] = "start_kernel"
    /\ IF IsCurrentThread(t) THEN Goto(t, "setup_streams")
       ELSE CallbackRaises(t, "AssertionError")

\* _start_kernel without its call of _setup_streams
_setup_streams_skipped(t) ==
    /\ Alive(t)
    /\ tpc[t] = "setup_streams"
    /\ Goto(t, "create_kernel")

\* line 117
_setup_streams(t) ==
    /\ Alive(t)
    /\ tpc[t] = "setup_streams"
    /\ IF IsCurrentThread(t) THEN Goto(t, "ss_lock")
       ELSE CallbackRaises(t, "AssertionError")

\* thread t enters a block "with self._condition:" and goes to position to
Acquire(t, to) ==
    /\ _lock[owner[t]] = 0
    /\ _lock' = [_lock EXCEPT ![owner[t]] = t]
    /\ tpc' = [tpc EXCEPT ![t] = to]
    /\ UNCHANGED <<_thread, owner, kernelObj, fault>>
    /\ UNCHANGED <<mainVars, envVars, ctorVars, handleVars, waiterVars>>

\* thread t calls notify_all() and leaves its with block for position to
NotifyRelease(t, to) ==
    /\ wpc' = notify_all(owner[t])
    /\ _lock' = [_lock EXCEPT ![owner[t]] = 0]
    /\ tpc' = [tpc EXCEPT ![t] = to]
    /\ UNCHANGED <<_thread, owner, kernelObj, fault, seen>>
    /\ UNCHANGED <<mainVars, envVars, ctorVars, handleVars>>

\* thread t leaves its with block for position to without a notification
ReleaseOnly(t, to) ==
    /\ _lock' = [_lock EXCEPT ![owner[t]] = 0]
    /\ tpc' = [tpc EXCEPT ![t] = to]
    /\ UNCHANGED <<_thread, owner, kernelObj, fault>>
    /\ UNCHANGED <<mainVars, envVars, ctorVars, handleVars, waiterVars>>

\* line 120
_setup_streams_lock(t) ==
    /\ Alive(t)
    /\ tpc[t] = "ss_lock"
    /\ Acquire(t, "ss_shell")

\* line 121
_setup_streams_shell(t) ==
    /\ Alive(t)
    /\ tpc[t] = "ss_shell"
    /\ _shell_stream' = [_shell_stream EXCEPT ![owner[t]] = t]
    /\ tpc' = [tpc EXCEPT ![t] = "ss_control"]
    /\ UNCHANGED <<_control_stream, _kernel>>
    /\ UNCHANGED <<_thread, _lock, owner, kernelObj, fault>>
    /\ UNCHANGED <<mainVars, envVars, ctorVars, waiterVars>>

\* line 122
_setup_streams_control(t) ==
    /\ Alive(t)
    /\ tpc[t] = "ss_control"
    /\ _control_stream' = [_control_stream EXCEPT ![owner[t]] = t]
    /\ tpc' = [tpc EXCEPT ![t] = "ss_notify"]
    /\ UNCHANGED <<_shell_stream, _kernel>>
    /\ UNCHANGED <<_thread, _lock, owner, kernelObj, fault>>
    /\ UNCHANGED <<mainVars, envVars, ctorVars, waiterVars>>

\* lines 121-122: a ZMQStream constructor raises
StreamRaises(t) ==
    /\ Alive(t)
    /\ tpc[t] \in {"ss_shell", "ss_control"}
    /\ CallbackRaises(t, "StreamError")

\* line 123 and the end of the with block
_setup_streams_notify(t) ==
    /\ Alive(t)
    /\ tpc[t] = "ss_notify"
    /\ NotifyRelease(t, "create_kernel")

\* line 131
_create_kernel(t) ==
    /\ Alive(t)
    /\ tpc[t] = "create_kernel"
    /\ IF IsCurrentThread(t) THEN Goto(t, "ck_construct")
       ELSE CallbackRaises(t, "AssertionError")

\* a kernel constructor that writes the connection file itself, as a kernel
\* application does
_create_kernel_construct_writes(t) ==
    /\ Alive(t)
    /\ tpc[t] = "ck_construct"
    /\ kernelObj' = [kernelObj EXCEPT ![t] = "built"]
    /\ tpc' = [tpc EXCEPT ![t] = "ck_lock"]
    /\ fs' = Put(fs, _connection_filename[owner[t]],
                 [mode |-> 33188, key |-> _session[owner[t]],
                  info |-> _connection_info[owner[t]]])
    /\ UNCHANGED <<_thread, _lock, owner, fault>>
    /\ UNCHANGED <<mainVars, pid, inUse, atexitHooks, proc, escaped, cleanup>>
    /\ UNCHANGED <<ctorVars, handleVars, waiterVars>>

\* lines 137-146: the kernel object, built into the local variable
_create_kernel_construct(t) ==
    /\ Alive(t)
    /\ tpc[t] = "ck_construct"
    /\ kernelObj' = [kernelObj EXCEPT ![t] = "built"]
    /\ tpc' = [tpc EXCEPT ![t] = "ck_lock"]
    /\ UNCHANGED <<_thread, _lock, owner, fault>>
    /\ UNCHANGED <<mainVars, envVars, ctorVars, handleVars, waiterVars>>

\* lines 140-146: the IPythonKernel constructor raises
KernelRaises(t) ==
    /\ Alive(t)
    /\ tpc[t] = "ck_construct"
    /\ CallbackRaises(t, "KernelError")

\* line 147
_create_kernel_lock(t) ==
    /\ Alive(t)
    /\ tpc[t] = "ck_lock"
    /\ Acquire(t, "ck_assign")

\* line 148
_create_kernel_assign(t) ==
    /\ Alive(t)
    /\ tpc[t] = "ck_assign"
    /\ _kernel' = [_kernel EXCEPT ![owner[t]] = t]
    /\ tpc' = [tpc EXCEPT ![t] = "ck_notify"]
    /\ UNCHANGED <<_shell_stream, _control_stream>>
    /\ UNCHANGED <<_thread, _lock, owner, kernelObj, fault>>
    /\ UNCHANGED <<mainVars, envVars, ctorVars, waiterVars>>

\* _create_kernel without its notify_all()
_create_kernel_no_notify(t) ==
    /\ Alive(t)
    /\ tpc[t] = "ck_notify"
    /\ ReleaseOnly(t, "kernel_start")

\* line 149 and the end of the with block
_create_kernel_notify(t) ==
    /\ Alive(t)
    /\ tpc[t] = "ck_notify"
    /\ NotifyRelease(t, "kernel_start")

\* lines 159-160: self._kernel.start() on the object self._kernel names now
_kernel_start(t) ==
    /\ Alive(t)
    /\ tpc[t] = "kernel_start"
    /\ kernelObj' = [kernelObj EXCEPT ![_kernel[owner[t]]] = "started"]
    /\ tpc' = [tpc EXCEPT ![t] = "serving"]
    /\ UNCHANGED <<_thread, _lock, owner, fault>>
    /\ UNCHANGED <<mainVars, envVars, ctorVars, handleVars, waiterVars>>

\* _thread_loop without its except clause
CaughtNothing(e) == FALSE

\* lines 171-172: the exceptions leaving run_forever() that _thread_loop catches
Caught(e) == e = "KeyboardInterrupt"

\* lines 169-172: a KeyboardInterrupt raised in the running event loop leaves
\* run_forever() (the loop hands it on, unlike other exceptions of a callback); a
\* with block it passes releases the lock
KeyboardInterrupt(t) ==
    /\ Alive(t)
    /\ tpc[t] \in InLoop
    /\ tpc' = [tpc EXCEPT ![t] = IF Caught("KeyboardInterrupt") THEN "returned" ELSE "died"]
    /\ _lock' = [_lock EXCEPT ![owner[t]] = IF @ = t THEN 0 ELSE @]
    /\ UNCHANGED <<_thread, owner, kernelObj, fault>>
    /\ UNCHANGED <<mainVars, envVars, ctorVars, handleVars, waiterVars>>

\* ------------------------------------------------------------------ waiter

\* A client thread of wrapper w that waits for the kernel:
\*     with w._condition:
\*         while w._kernel is None: w._condition.wait()
\*         seen = w._kernel
WaiterAcquire(w) ==
    /\ proc # "exited"
    /\ cpc[w] = "constructed"
    /\ wpc \in {"idle", "woken"}
    /\ _lock[w] = 0
    /\ _lock' = [_lock EXCEPT ![w] = WaiterId]
    /\ wpc' = "check"
    /\ UNCHANGED <<_thread, owner, tpc, kernelObj, fault, seen>>
    /\ UNCHANGED <<mainVars, envVars, ctorVars, handleVars>>

\* the predicate, read under the lock: wait() releases the lock and blocks
WaiterCheck(w) ==
    /\ proc # "exited"
    /\ wpc = "check"
    /\ _lock' = [_lock EXCEPT ![w] = 0]
    /\ IF _kernel[w] = 0
       THEN wpc' = "waiting" /\ UNCHANGED seen
       ELSE wpc' = "done" /\ seen' = _kernel[w]
    /\ UNCHANGED <<_thread, owner, tpc, kernelObj, fault>>
    /\ UNCHANGED <<mainVars, envVars, ctorVars, handleVars>>

\* --------------------------------------------------------------- heartbeat

\* a client sends a liveness probe to the heartbeat port of wrapper w
Probe(w) ==
    /\ proc # "exited"
    /\ _connection_info[w].hb_port # 0
    /\ hbProbe[w] \in {"none", "answered"}
    /\ hbProbe' = [hbProbe EXCEPT ![w] = "sent"]
    /\ UNCHANGED <<mpc, printed>>
    /\ UNCHANGED <<envVars, ctorVars, handleVars, threadVars, waiterVars>>

\* a heartbeat served by the event loop of the background thread, next to the kernel
heartbeat_echo_in_loop(w) ==
    /\ proc # "exited"
    /\ heartbeat[w]
    /\ \E t \in Threads : owner[t] = w /\ tpc[t] = "serving"
    /\ hbProbe[w] = "sent"
    /\ hbProbe' = [hbProbe EXCEPT ![w] = "answered"]
    /\ UNCHANGED <<mpc, printed>>
    /\ UNCHANGED <<envVars, ctorVars, handleVars, threadVars, waiterVars>>

\* lines 79-84: the Heartbeat started at line 84 is a thread of its own with a
\* context of its own (line 81); it echoes a probe whatever the other threads do
heartbeat_echo(w) ==
    /\ proc # "exited"
    /\ heartbeat[w]
    /\ hbProbe[w] = "sent"
    /\ hbProbe' = [hbProbe EXCEPT ![w] = "answered"]
    /\ UNCHANGED <<mpc, printed>>
    /\ UNCHANGED <<envVars, ctorVars, handleVars, threadVars, waiterVars>>

\* -------------------------------------------------------------- main thread

\* lines 181-183: init_ipython_kernel() calls start() once, on the wrapper it built
init_ipython_kernel_start ==
    /\ mpc = "none"
    /\ _thread[1] = 0
    /\ start(1)

\* a step of the main thread to position to, printing or not
MainGoto(to, p) ==
    /\ proc = "running"
    /\ mpc' = to
    /\ printed' = p
    /\ UNCHANGED <<hbProbe, escaped>>
    /\ UNCHANGED <<pid, inUse, fs, atexitHooks, proc, cleanup>>
    /\ UNCHANGED <<ctorVars, handleVars, threadVars, waiterVars>>

\* lines 203-204, 189-191: main() calls _endless_dummy_loop() after
\* init_ipython_kernel() returned; import time, then the head of the while loop
_endless_dummy_loop ==
    /\ MainFree
    /\ mpc = "none"
    /\ _thread[1] # 0
    /\ MainGoto("while", printed)

\* lines 192-193: the try block is entered and time.sleep(1) called
_endless_dummy_loop_sleep ==
    /\ mpc = "while"
    /\ MainGoto("sleep", printed)

\* lines 193, 191: time.sleep(1) returned, the try block is left, back to the head
_endless_dummy_loop_wake ==
    /\ mpc = "sleep"
    /\ MainGoto("while", printed)

\* the positions of _endless_dummy_loop inside its try block (lines 192-193)
InTry == {"sleep"}

\* lines 194-196: a KeyboardInterrupt raised in the main thread (SIGINT) while it
\* is in _endless_dummy_loop: inside the try block it is caught, the message
\* printed and the function returns; at the head of the loop, outside the try
\* block, it leaves the function towards main()
KeyboardInterruptMain ==
    /\ proc = "running"
    /\ mpc \in InDummyLoop
    /\ IF mpc \in InTry
       THEN /\ mpc' = "returned"
            /\ printed' = TRUE
            /\ UNCHANGED escaped
       ELSE /\ mpc' = "raised"
            /\ escaped' = escaped \cup {<<"_endless_dummy_loop", "KeyboardInterrupt">>}
            /\ UNCHANGED printed
    /\ UNCHANGED hbProbe
    /\ UNCHANGED <<pid, inUse, fs, atexitHooks, proc, cleanup>>
    /\ UNCHANGED <<ctorVars, handleVars, threadVars, waiterVars>>

\* lines 199-209: main() has returned or raised: the main thread ends
main_end ==
    /\ mpc \in {"returned", "raised"} \/ cpc[1] = "failed"
    /\ ExitBegin

\* ------------------------------------------------------------ specification

\* one wrapper, built as init_ipython_kernel() builds it, on a host whose ports
\* are free or used up but for three
HostBusy == {{}, 4..NumPorts}

Init == InitWith({305}, HostBusy)

ConstructorStep(w) ==
    \/ _create_session(w)
    \/ _create_sockets(w)
    \/ atexit_register(w)
    \/ write_connection_file(w)
    \/ chmod(w)

ThreadStep(t) ==
    \/ _thread_loop(t)
    \/ _start_kernel(t)
    \/ _setup_streams(t)
    \/ _setup_streams_lock(t)
    \/ _setup_streams_shell(t)
    \/ _setup_streams_control(t)
    \/ _setup_streams_notify(t)
    \/ _create_kernel(t)
    \/ _create_kernel_construct(t)
    \/ _create_kernel_lock(t)
    \/ _create_kernel_assign(t)
    \/ _create_kernel_notify(t)
    \/ _kernel_start(t)

ThreadFails(t) ==
    \/ StreamRaises(t)
    \/ KernelRaises(t)
    \/ KeyboardInterrupt(t)

WaiterStep ==
    \/ WaiterAcquire(1)
    \/ WaiterCheck(1)

ExitStep ==
    \/ ExitBegin
    \/ RunExitHook
    \/ ExitEnd

Next ==
    \/ __init__(1, DefaultFilename, TRUE)
    \/ ConstructorStep(1)
    \/ start(1)
    \/ \E t \in Threads : ThreadStep(t)
    \/ \E t \in Threads : ThreadFails(t)
    \/ WaiterStep
    \/ ExitStep

Spec == Init /\ [][Next]_vars

\* the handshake alone: no construction failure on the background thread, no
\* cancellation, a process that keeps running; every thread that can take a step
\* eventually takes it
LiveNext ==
    \/ __init__(1, DefaultFilename, TRUE)
    \/ ConstructorStep(1)
    \/ start(1)
    \/ \E t \in Threads : ThreadStep(t)
    \/ WaiterStep

LiveSpec ==
    /\ Init
    /\ [][LiveNext]_vars
    /\ \A t \in Threads : WF_vars(ThreadStep(t))
    /\ WF_vars(WaiterStep)

\* two wrappers built one after the other in one process, from the default base
\* filename or a name without extension, then the exit of the process
SeqBusy == {{}, (NumPorts - 1)..NumPorts}

SeqInit == InitWith({305}, SeqBusy)

SeqNext ==
    \/ \E w \in Wrappers, fn \in {DefaultFilename, <<"k">>}, b \in BOOLEAN : __init__(w, fn, b)
    \/ \E w \in Wrappers : ConstructorStep(w)
    \/ ExitStep

SeqSpec == SeqInit /\ [][SeqNext]_vars

\* ------------------------------------------------- filename specification

\* the constructor's first statements on every base filename up to MaxLen, with and
\* without the pid suffix, in processes of several pids
FnInit == InitWith(Pids, {{}})

FnNext ==
    \/ \E fn \in StringsUpTo(MaxLen), b \in BOOLEAN : __init__(1, fn, b)
    \/ _create_session(1)

FnSpec == FnInit /\ [][FnNext]_vars

\* ------------------------------------------------------ main specification

\* the program run as a script: main() builds and starts one wrapper, keeps the
\* main thread in _endless_dummy_loop(), and the process ends when main() does
MainStep ==
    \/ _endless_dummy_loop
    \/ _endless_dummy_loop_sleep
    \/ _endless_dummy_loop_wake
    \/ KeyboardInterruptMain

MainNext ==
    \/ __init__(1, DefaultFilename, TRUE)
    \/ ConstructorStep(1)
    \/ init_ipython_kernel_start
    \/ \E t \in Threads : ThreadStep(t)
    \/ \E t \in Threads : ThreadFails(t)
    \/ MainStep
    \/ main_end
    \/ RunExitHook
    \/ ExitEnd

MainSpec == Init /\ [][MainNext]_vars

\* ------------------------------------------------- heartbeat specification

\* one wrapper with its background threads, their failures and cancellations, the
\* exit of the process, and a client that probes the heartbeat; only the
\* heartbeat thread is sure to run
HbNext ==
    \/ __init__(1, DefaultFilename, TRUE)
    \/ ConstructorStep(1)
    \/ start(1)
    \/ \E t \in Threads : ThreadStep(t)
    \/ \E t \in Threads : ThreadFails(t)
    \/ ExitStep
    \/ Probe(1)
    \/ heartbeat_echo(1)

HbSpec == Init /\ [][HbNext]_vars /\ WF_vars(heartbeat_echo(1))

\* ------------------------------------------------------------------ claims

\* the kernel handle h of a wrapper names a kernel object whose constructor returned
Constructed(h) == h \in Threads /\ kernelObj[h] \in {"built", "started"}

\* C1: once start() was called, a client that waits on the condition for
\* "self._kernel is not None" (testing it under the lock before each wait) gets
\* past the wait, and from then on the handle it read and the handle of the
\* wrapper name a kernel object whose constructor returned.
C1_Readiness ==
    /\ (_thread[1] # 0 /\ wpc # "idle") ~> (wpc = "done")
    /\ [](wpc = "done" => Constructed(seen) /\ Constructed(_kernel[1]))

\* the client slept on the condition and was woken by the notification of the kernel
C1_Witness == wpc = "woken" /\ Constructed(_kernel[1]) /\ tpc[1] = "kernel_start"

\* C2: the streams and the kernel handle of a wrapper change from None to an
\* object at most once: a handle that is set is never assigned again, whatever
\* the number of calls of start().
C2_AssignedOnce ==
    [][\A w \in Wrappers :
          /\ _shell_stream[w] # 0 => _shell_stream'[w] = _shell_stream[w]
          /\ _control_stream[w] # 0 => _control_stream'[w] = _control_stream[w]
          /\ _kernel[w] # 0 => _kernel'[w] = _kernel[w]]_vars

\* C3: every assertion "threading.current_thread() is self._thread" of
\* _thread_loop, _start_kernel, _setup_streams and _create_kernel holds when it
\* is evaluated: no thread raises an AssertionError.
C3_AssertionsHold == \A t \in Threads : fault[t] # "AssertionError"

\* the lifecycle state of wrapper w: 0 Constructing, 1 SocketsBound,
\* 2 ConnectionFilePersisted, 3 ThreadStarted, 4 StreamsReady, 5 KernelConstructed,
\* 6 Running
Phase(w) ==
    IF \E t \in Threads : owner[t] = w /\ kernelObj[t] = "started" THEN 6
    ELSE IF _kernel[w] # 0 THEN 5
    ELSE IF _shell_stream[w] # 0 /\ _control_stream[w] # 0 THEN 4
    ELSE IF _thread[w] # 0 THEN 3
    ELSE IF cpc[w] \in {"chmod", "constructed"} THEN 2
    ELSE IF _connection_info[w] # NoInfo THEN 1
    ELSE 0

LifecycleOrder(w) ==
    /\ _kernel[w] # 0 => _shell_stream[w] # 0 /\ _control_stream[w] # 0
    /\ (\E t \in Threads : owner[t] = w /\ kernelObj[t] = "started") => _kernel[w] # 0
    /\ (_shell_stream[w] # 0 \/ _control_stream[w] # 0) => _thread[w] # 0
    /\ _thread[w] # 0 =>
          /\ _session[w] # 0
          /\ _connection_info[w] # NoInfo
          /\ cpc[w] = "constructed"
          /\ (proc = "running" => _connection_filename[w] \in DOMAIN fs)

\* C4: the lifecycle state of a wrapper never goes back and never skips a state,
\* and in every state: a kernel implies both streams, a started kernel implies a
\* kernel handle, a stream implies a started thread, and a started thread implies
\* the session, the bound sockets and the written connection file.
C4_Lifecycle ==
    /\ [](\A w \in Wrappers : LifecycleOrder(w))
    /\ [][\A w \in Wrappers : Phase(w)' \in {Phase(w), Phase(w) + 1}]_vars

\* the wrapper went through all states up to Running
C4_Witness == Phase(1) = 6 /\ tpc[1] = "serving" /\ _kernel[1] = 1

\* C5: whenever the connection file exists, its mode grants nothing to group
\* and others.
C5_OwnerOnly == \A fn \in DOMAIN fs : GroupOtherBits(fs[fn].mode) = 0

\* the ports of wrapper w
PortsOf(w) == {_connection_info[w].shell_port, _connection_info[w].iopub_port,
               _connection_info[w].control_port, _connection_info[w].hb_port} \ {0}

\* C6: two wrappers of one process, built one after the other from the same
\* base filename with the pid suffix, have different connection filenames, the
\* file of the first still holds the key of the first while it is in use, and
\* their ports differ.
C6_NoCollision ==
    (/\ cpc[1] = "constructed"
     /\ cpc[2] # "unborn"
     /\ argWithPid[1] /\ argWithPid[2]
     /\ argFilename[1] = argFilename[2])
    => /\ _connection_filename[1] # _connection_filename[2]
       /\ (proc = "running" => /\ _connection_filename[1] \in DOMAIN fs
                               /\ fs[_connection_filename[1]].key = _session[1])
       /\ PortsOf(1) \cap PortsOf(2) = {}

DigitValue(c) == CASE c = "0" -> 0 [] c = "1" -> 1 [] c = "2" -> 2 [] c = "3" -> 3
                   [] c = "4" -> 4 [] c = "5" -> 5 [] c = "6" -> 6 [] c = "7" -> 7
                   [] c = "8" -> 8 [] c = "9" -> 9 [] OTHER -> -1

IsDecimal(d) == /\ Len(d) >= 1
                /\ \A i \in 1..Len(d) : DigitValue(d[i]) >= 0
                /\ (Len(d) > 1 => d[1] # "0")

RECURSIVE ParseInt(_)
ParseInt(d) == IF Len(d) = 0 THEN 0
               ELSE 10 * ParseInt(SubSeq(d, 1, Len(d) - 1)) + DigitValue(d[Len(d)])

\* p[k+1..] is an extension of p: a dot, then neither dot nor separator, after a
\* last path component that holds a character other than a dot
HasExtAt(p, k) ==
    /\ k < Len(p)
    /\ p[k + 1] = "."
    /\ \A i \in (k + 2)..Len(p) : p[i] \notin {".", "/"}
    /\ \E i \in 1..k : p[i] # "." /\ \A j \in i..k : p[j] # "/"

\* where the extension of p starts: after k characters (all of p when it has none)
ExtStart(p, k) == \/ HasExtAt(p, k)
                  \/ k = Len(p) /\ \A j \in 0..Len(p) : ~HasExtAt(p, j)

\* f is base with "-<pid>" put in before the extension
IsPidSuffixed(f, base, p) ==
    \E k \in 0..Len(base) :
        /\ ExtStart(base, k)
        /\ Len(f) >= Len(base) + 2
        /\ SubSeq(f, 1, k) = SubSeq(base, 1, k)
        /\ f[k + 1] = "-"
        /\ LET d == SubSeq(f, k + 2, k + 1 + Len(f) - Len(base) - 1)
           IN IsDecimal(d) /\ ParseInt(d) = p
        /\ SubSeq(f, Len(f) - (Len(base) - k) + 1, Len(f)) = SubSeq(base, k + 1, Len(base))

\* C7: the connection filename the constructor computed is
\* <base_without_ext>-<pid><ext> when connection_fn_with_pid is true, and the base
\* filename unchanged when it is false.
C7_ConnectionFilename ==
    \A w \in Wrappers : cpc[w] # "unborn" =>
        IF argWithPid[w]
        THEN IsPidSuffixed(_connection_filename[w], argFilename[w], pid)
        ELSE _connection_filename[w] = argFilename[w]

\* a base with a directory that holds a dot and a hidden file with an extension is suffixed
C7_Witness ==
    /\ cpc[1] = "create_sockets"
    /\ argWithPid[1]
    /\ pid = 40
    /\ argFilename[1] = <<".", "a", ".">>
    /\ _connection_filename[1] = <<".", "a", "-", "4", "0", ".">>

\* C8 as stated: once the hook of a wrapper has run, its connection file does
\* not exist, and no run of the hook raises.
C8_RemovedAfterHook ==
    /\ \A w \in Wrappers : cleanup[w] # "none" => _connection_filename[w] \notin DOMAIN fs
    /\ \A e \in escaped : e[1] # "_cleanup_connection_file"

\* a step that runs the exit hook of wrapper w
HookStep(w) == cleanup'[w] # cleanup[w]

\* C8 amended: a run of the hook raises nothing and changes nothing but the file
\* and atexit's registry; right after it the file does not exist when os.remove
\* removed it or found it missing (a second run on the same name included), and
\* is left as it was when os.remove failed with a permission error; a file that
\* a hook removed or found missing stays missing.
C8_BestEffortCleanup ==
    /\ [](/\ \A e \in escaped : e[1] # "_cleanup_connection_file"
          /\ \A w \in Wrappers :
                cleanup[w] \in {"removed", "FileNotFoundError"}
                   => _connection_filename[w] \notin DOMAIN fs)
    /\ [][\A w \in Wrappers : HookStep(w) =>
             /\ cleanup'[w] \in {"removed", "FileNotFoundError", "PermissionError"}
             /\ cleanup'[w] # "PermissionError" => fs' = Remove(fs, _connection_filename[w])
             /\ cleanup'[w] = "PermissionError"
                   => fs' = fs /\ _connection_filename[w] \in DOMAIN fs
             /\ escaped' = escaped
             /\ UNCHANGED <<pid, inUse, proc, ctorVars, handleVars, threadVars, waiterVars>>]_vars

\* both hooks ran on one name: the second run found the file missing
C8_Witness ==
    /\ _connection_filename[1] = _connection_filename[2]
    /\ cleanup[2] = "removed"
    /\ cleanup[1] = "FileNotFoundError"

\* the positions of a with block at which the thread has written a handle
Wrote == {"ss_control", "ss_notify", "ck_notify"}

\* C9: a stream or kernel handle is written only by a background thread that
\* holds the lock; when that thread releases the lock after a write, the waiters
\* on the condition have been notified; and a thread that holds the lock to read
\* sees both streams None or both set.
C9_LockedWrites ==
    [][\A w \in Wrappers :
          /\ <<_shell_stream[w], _control_stream[w], _kernel[w]>>
                # <<_shell_stream'[w], _control_stream'[w], _kernel'[w]>>
             => _lock[w] \in Threads /\ owner[_lock[w]] = w /\ _lock'[w] = _lock[w]
          /\ (_lock[w] \in Threads /\ _lock'[w] # _lock[w] /\ tpc[_lock[w]] \in Wrote)
             => (w = 1 => wpc' # "waiting")
          /\ _lock'[w] = WaiterId => (_shell_stream'[w] = 0 <=> _control_stream'[w] = 0)]_vars

\* thread t leaves the event loop in this step
LeavesLoop(t) == tpc[t] \in InLoop /\ tpc'[t] \notin InLoop

\* C10: a KeyboardInterrupt in the event loop of a background thread, at whatever
\* position, is caught in _thread_loop: the thread returns from it, nothing
\* reaches the main thread, no thread is started, the handles keep their values,
\* and a thread that returned stays so.
C10_Cancellation ==
    [][\A t \in Threads :
          /\ LeavesLoop(t) =>
                /\ tpc'[t] = "returned"
                /\ \A u \in Threads \ {t} : tpc'[u] = tpc[u]
                /\ escaped' = escaped
                /\ UNCHANGED <<_thread, owner, fault, kernelObj, handleVars, ctorVars>>
          /\ tpc[t] \in {"returned", "died"} => tpc'[t] = tpc[t]]_vars

\* one thread was interrupted while serving, the other between the two stream assignments
C10_Witness ==
    /\ tpc[1] = "returned" /\ kernelObj[1] = "started"
    /\ tpc[2] = "returned" /\ _shell_stream[1] = 2 /\ _control_stream[1] = 1

\* wrapper w has its exit hook in atexit's registry, or had it run
HookRegistered(w) == cleanup[w] # "none" \/ \E i \in 1..Len(atexitHooks) : atexitHooks[i] = w

\* a file that write_connection_file wrote for wrapper w exists
FileWrittenBy(w) == \E fn \in DOMAIN fs : fs[fn].key = w

\* the rank of a constructor position; 0 for a constructor that raised
CtorRank(c) == CASE c = "unborn" -> 1 [] c = "create_session" -> 2
                 [] c = "create_sockets" -> 3 [] c = "atexit_register" -> 4
                 [] c = "write_connection_file" -> 5 [] c = "chmod" -> 6
                 [] c = "constructed" -> 7 [] OTHER -> 0

\* C11: the constructor runs session creation, socket provisioning, hook
\* registration and file writing in this order, each step once; a step that fails
\* raises to the caller and the constructor does nothing more, ever; and a wrapper
\* whose socket provisioning failed has no connection file, no exit hook and no
\* background thread, in every later state.
C11_ConstructorFailure ==
    /\ [](\A w \in Wrappers :
            /\ _connection_info[w] # NoInfo => _session[w] # 0
            /\ (HookRegistered(w) \/ FileWrittenBy(w)) => _connection_info[w] # NoInfo
            /\ FileWrittenBy(w) => HookRegistered(w)
            /\ cpc[w] = "failed" =>
                  /\ \E e \in escaped : e[1] = "__init__"
                  /\ _thread[w] = 0
                  /\ \A t \in Threads : owner[t] # w
            /\ (cpc[w] = "failed" /\ _connection_info[w] = NoInfo) =>
                  /\ ~HookRegistered(w)
                  /\ ~FileWrittenBy(w)
                  /\ ~heartbeat[w])
    /\ [][\A w \in Wrappers :
            /\ cpc[w] = "failed" =>
                  /\ cpc'[w] = "failed"
                  /\ _connection_info'[w] = _connection_info[w]
                  /\ _session'[w] = _session[w]
            /\ (cpc[w] # "failed" /\ cpc'[w] # cpc[w]) =>
                  CtorRank(cpc'[w]) \in {0, CtorRank(cpc[w]) + 1}]_vars

\* socket provisioning failed for want of a port, and the process has exited since
C11_Witness ==
    /\ cpc[1] = "failed"
    /\ _session[1] # 0
    /\ _connection_info[1] = NoInfo
    /\ <<"__init__", "ZMQBindError">> \in escaped
    /\ proc = "exited"

\* a step in which start() of wrapper w is called
StartStep(w) == _thread'[w] # _thread[w]

\* C12: start() records a new daemon thread in the wrapper, starts it and
\* returns: in the state it leaves, the thread has taken no step, the handles are
\* as they were and the main thread is free again.  Whenever the main thread is
\* free the exit of the process can begin, and once begun it can go on (the next
\* hook, or the end), whatever the positions of the background threads.
C12_NonBlocking ==
    /\ [][\A w \in Wrappers : StartStep(w) =>
             /\ _thread'[w] \in Threads
             /\ tpc[_thread'[w]] = "unborn"
             /\ tpc'[_thread'[w]] = "thread_loop"
             /\ owner'[_thread'[w]] = w
             /\ \A u \in Threads \ {_thread'[w]} : tpc'[u] = tpc[u]
             /\ UNCHANGED <<handleVars, _lock, kernelObj, fault>>
             /\ MainFree']_vars
    /\ [](MainFree => ENABLED ExitBegin)
    /\ [](proc = "exiting" => ENABLED (RunExitHook \/ ExitEnd))

\* start() returned and the process exited, its hook run, before the thread took a step
C12_Witness ==
    /\ _thread[1] = 1
    /\ tpc[1] = "thread_loop"
    /\ _shell_stream[1] = 0 /\ _control_stream[1] = 0 /\ _kernel[1] = 0
    /\ cleanup[1] = "removed"
    /\ proc = "exited"

\* the exceptions of a stream or kernel constructor
ConstructionFaults == {"StreamError", "KernelError"}

C14_CancellationCaught ==
    /\ [][(mpc \in InDummyLoop /\ mpc' \notin InDummyLoop) =>
             /\ mpc' = "returned"
             /\ printed'
             /\ escaped' = escaped]_vars
    /\ [](\A e \in escaped : e[1] # "_endless_dummy_loop")

\* a step of start() or of a background thread
BackgroundStep == _thread' # _thread \/ tpc' # tpc

\* a step that takes a file away
FileRemoved == \E fn \in DOMAIN fs : fn \notin DOMAIN fs'

\* a step of the constructor of wrapper w at its write_connection_file or chmod
WriteStep(w) == cpc[w] \in {"write_connection_file", "chmod"} /\ cpc'[w] # cpc[w]

\* C15: the connection file is written by the constructor only, in its one pass
\* through write_connection_file and chmod; a constructed wrapper keeps its
\* filename, session key and ports for good; start() and every step of a
\* background thread, cancellation and failure included, leave the filename, the
\* files with their contents and modes, the session key, the ports and atexit's
\* registry as they are; and a file goes away only in a run of the exit hook.
C15_DescriptorImmutable ==
    [][/\ BackgroundStep =>
             UNCHANGED <<fs, _connection_filename, _session, _connection_info, inUse,
                         heartbeat, atexitHooks, cleanup>>
       /\ fs' # fs => \/ \E w \in Wrappers : WriteStep(w)
                      \/ \E w \in Wrappers : HookStep(w)
       /\ FileRemoved => \E w \in Wrappers : HookStep(w) /\ proc = "exiting"
       /\ \A w \in Wrappers :
             /\ cpc[w] = "constructed" =>
                   /\ cpc'[w] = "constructed"
                   /\ _connection_filename'[w] = _connection_filename[w]
                   /\ _session'[w] = _session[w]
                   /\ _connection_info'[w] = _connection_info[w]
             /\ WriteStep(w) => CtorRank(cpc'[w]) \in {0, CtorRank(cpc[w]) + 1}]_vars

\* both threads have run, one serves and one was cancelled, and the file is as
\* the constructor left it
C15_Witness ==
    /\ tpc[1] = "serving"
    /\ tpc[2] = "returned"
    /\ cpc[1] = "constructed"
    /\ _connection_filename[1] \in DOMAIN fs
    /\ fs[_connection_filename[1]] =
          [mode |-> 33152, key |-> _session[1], info |-> _connection_info[1]]

\* C16: the heartbeat is started by socket provisioning and by nothing else; a
\* probe sent while the process lives is answered (or the process ends first)
\* with no step of a background thread needed: the answer is possible in every
\* state in which a probe is pending, whatever the positions of the threads.
C16_HeartbeatLive ==
    /\ [](\A w \in Wrappers : heartbeat[w] <=> _connection_info[w] # NoInfo)
    /\ [](\A w \in Wrappers : hbProbe[w] # "none" => heartbeat[w])
    /\ [](\A w \in Wrappers :
            (hbProbe[w] = "sent" /\ proc # "exited") => ENABLED heartbeat_echo(w))
    /\ \A w \in Wrappers :
          (hbProbe[w] = "sent") ~> (hbProbe[w] = "answered" \/ proc = "exited")

\* a probe was answered on a wrapper whose start() was never called: the
\* heartbeat lives and no kernel serves
C16_Witness ==
    /\ hbProbe[1] = "answered"
    /\ cpc[1] = "constructed"
    /\ _thread[1] = 0
    /\ \A t \in Threads : tpc[t] = "unborn"
    /\ proc = "running"

====
